---- MODULE Spec2Model ----
(***************************************************************************)
(* Model of inkml_converter_wrapper.py: the InkMLConverter class, which    *)
(* shells out to an external text-to-InkML converter and manages the file  *)
(* paths around that call.                                                 *)
(*                                                                         *)
(* A behaviour is the construction of the object followed by one call of   *)
(* one of its three methods; the initial file systems include what earlier *)
(* use can have left on disk.                                              *)
(*                                                                         *)
(* A path (a Python str) is a sequence of tokens.  The tokens "." and "/"  *)
(* are the dot and the separator; every other token is a run of characters *)
(* holding neither, so str.rsplit('.', 1) and pathlib's name and suffix    *)
(* are computed on the tokens exactly as Python computes them on the       *)
(* characters.                                                             *)
(***************************************************************************)
EXTENDS Naturals, Sequences, FiniteSets

VARIABLES
    scripts,      \* converter scripts present on disk
    obj,          \* the constructed InkMLConverter: its self.converter_script
    fs,           \* regular files on disk: path -> who wrote the file
    dirs,         \* directories on disk
    procs,        \* converter processes started so far, in order
    call,         \* the API call made last (or in progress): name and arguments
    ret,          \* how the last finished call ended: a return or a raise
    todo,         \* batch: discovered files not yet processed
    inkml_files,  \* batch: the result list
    printed,      \* batch: lines written by print()
    fs0           \* the files on disk when the call began

vars == <<scripts, obj, fs, dirs, procs, call, ret, todo, inkml_files, printed, fs0>>

----------------------------------------------------------------------------
(* Bounds *)

\* "*.txt" files under the input directory
MaxFiles == 2
\* tokens of a path handed to convert_txt_to_inkml in SpecPath
MaxLen == 4

----------------------------------------------------------------------------
(* Strings and paths *)

Dot == "."
Sep == "/"

\* Optional values: Python's None, or a str
None == [some |-> FALSE, v |-> <<>>]
Some(s) == [some |-> TRUE, v |-> s]
\* Python truthiness of an optional str: None and "" are falsy
Truthy(a) == a.some /\ a.v # <<>>

\* indices of s holding token t
Positions(s, t) == {i \in 1..Len(s) : s[i] = t}
\* greatest index of s holding t, 0 when there is none
LastIndex(s, t) ==
    LET P == Positions(s, t)
    IN  IF P = {} THEN 0 ELSE CHOOSE i \in P : \A j \in P : j <= i

\* s.rsplit('.', 1)[0]: s up to its last dot, all of s when it has none
RSplitDot(s) ==
    LET d == LastIndex(s, Dot)
    IN  IF d = 0 THEN s ELSE SubSeq(s, 1, d - 1)

InkmlExt == <<Dot, "inkml">>

\* txt_file_path.rsplit('.', 1)[0] + '.inkml'
InkmlPath(p) == RSplitDot(p) \o InkmlExt

\* pathlib: Path(p).name, the part after the last separator
Name(p) == SubSeq(p, LastIndex(p, Sep) + 1, Len(p))
\* pathlib: the path up to and including the last separator
ParentPrefix(p) == SubSeq(p, 1, LastIndex(p, Sep))

\* pathlib: PurePath.suffix of a file name: from its last dot, unless that dot
\* is the name's first or last character
SuffixStart(n) ==
    LET d == LastIndex(n, Dot)
    IN  IF d > 1 /\ d < Len(n) THEN d ELSE Len(n) + 1

\* txt_file.with_suffix('.inkml').name
WithSuffixName(p) == SubSeq(Name(p), 1, SuffixStart(Name(p)) - 1) \o InkmlExt

\* output_path / txt_file.with_suffix('.inkml').name
FinalPath(outdir, f) == outdir \o <<Sep>> \o WithSuffixName(f)

\* temp_file_path.rsplit('.', 1)[0] + '_' + output_filename + '.inkml'
NewInkmlPath(tmp, label) == RSplitDot(tmp) \o <<"_">> \o label \o InkmlExt

\* p lies under directory d
IsUnder(p, d) ==
    /\ Len(p) > Len(d) + 1
    /\ SubSeq(p, 1, Len(d)) = d
    /\ p[Len(d) + 1] = Sep

\* rglob("*.txt"): the name ends in ".txt"
MatchesTxt(p) ==
    LET n == Name(p)
    IN  Len(n) >= 2 /\ SubSeq(n, Len(n) - 1, Len(n)) = <<Dot, "txt">>

----------------------------------------------------------------------------
(* The file system *)

ByUser == [by |-> "user", src |-> <<>>]
ByTempfile == [by |-> "tempfile", src |-> <<>>]
ByConverter(p) == [by |-> "converter", src |-> p]

Exists(f, p) == p \in DOMAIN f
WriteFile(f, p, o) == [q \in (DOMAIN f) \cup {p} |-> IF q = p THEN o ELSE f[q]]
RemoveFile(f, p) == [q \in (DOMAIN f) \ {p} |-> f[q]]
\* os.rename on POSIX: the destination is replaced silently
RenameFile(f, src, dst) ==
    [q \in ((DOMAIN f) \ {src}) \cup {dst} |-> IF q = dst THEN f[src] ELSE f[q]]

----------------------------------------------------------------------------
(* Call results *)

NoResult == [kind |-> "none", err |-> "", val |-> <<>>, msg |-> <<>>, list |-> <<>>]
Pending == [kind |-> "pending", err |-> "", val |-> <<>>, msg |-> <<>>, list |-> <<>>]
Return(v) == [kind |-> "return", err |-> "", val |-> v, msg |-> <<>>, list |-> <<>>]
ReturnList(l) == [kind |-> "return", err |-> "", val |-> <<>>, msg |-> <<>>, list |-> l]
Raise(e, m) == [kind |-> "raise", err |-> e, val |-> <<>>, msg |-> m, list |-> <<>>]

NoCall == [op |-> "none", path |-> <<>>, opt |-> None, out |-> <<>>, bad |-> FALSE]

----------------------------------------------------------------------------
(* The external converter: a black box that exits with a status, may write  *)
(* a sibling output file and may leave text on its error stream.            *)

\* spawned: subprocess.run could start ["npx", "tsx", script, path]; when it
\* could not (no npx on the PATH) it raises an OSError and nothing ran.
\* decoded: text=True could decode what the process left on its output and
\* error streams; when it cannot (bytes that are no valid text) subprocess.run
\* raises UnicodeDecodeError after the process has ended, whatever its status.
Outcomes ==
    {[spawned |-> TRUE, decoded |-> TRUE, exit |-> 0, wrote |-> TRUE, stderr |-> ""],
     [spawned |-> TRUE, decoded |-> TRUE, exit |-> 0, wrote |-> FALSE, stderr |-> ""],
     [spawned |-> TRUE, decoded |-> TRUE, exit |-> 1, wrote |-> FALSE, stderr |-> "e1"],
     [spawned |-> TRUE, decoded |-> TRUE, exit |-> 2, wrote |-> FALSE, stderr |-> "e2"],
     [spawned |-> TRUE, decoded |-> FALSE, exit |-> 0, wrote |-> TRUE, stderr |-> "0xff"],
     [spawned |-> TRUE, decoded |-> FALSE, exit |-> 1, wrote |-> FALSE, stderr |-> "0xff"],
     [spawned |-> FALSE, decoded |-> TRUE, exit |-> 0, wrote |-> FALSE, stderr |-> ""]}

\* where the converter writes: beside the input, same base name, ".inkml"
SiblingPath(p) ==
    LET n == Name(p)
        d == LastIndex(n, Dot)
    IN  ParentPrefix(p) \o (IF d = 0 THEN n ELSE SubSeq(n, 1, d - 1)) \o InkmlExt

\* the files on disk after one converter process on input p ended as o
RunConverter(f, p, o) ==
    IF o.spawned /\ o.wrote THEN WriteFile(f, SiblingPath(p), ByConverter(p)) ELSE f

\* the record of one subprocess.run(["npx", "tsx", script, p]) and how it ended
Proc(script, p, o) ==
    [script |-> script, arg |-> p, spawned |-> o.spawned, decoded |-> o.decoded,
     exit |-> o.exit, stderr |-> o.stderr, wrote |-> o.wrote]

----------------------------------------------------------------------------
(* InkMLConverter.__init__ *)

DefaultScript == <<"pkg", Sep, "convert_txt_to_inkml", Dot, "ts">>
UserScript == <<"conv", Dot, "ts">>

\* converter_script_path or str(script_dir / "convert_txt_to_inkml.ts")
ResolveScript(arg) == IF Truthy(arg) THEN arg.v ELSE DefaultScript

\* the existence check left out
ScriptFoundAlways(path) == TRUE

\* Path(self.converter_script).exists()
ScriptFound(path) == path \in scripts

NotFoundMsg(path) == <<"Converter script not found: ">> \o path

Construct(arg) ==
    /\ ~obj.some
    /\ call' = [NoCall EXCEPT !.op = "init", !.opt = arg]
    /\ IF ScriptFound(ResolveScript(arg))
       THEN /\ obj' = Some(ResolveScript(arg))
            /\ ret' = Return(<<>>)
       ELSE /\ obj' = obj
            /\ ret' = Raise("FileNotFoundError", NotFoundMsg(ResolveScript(arg)))
    /\ UNCHANGED <<scripts, fs, dirs, procs, todo, inkml_files, printed, fs0>>

----------------------------------------------------------------------------
(* InkMLConverter.convert_txt_to_inkml *)

FailedMsg(stderr) == <<"Conversion failed: ", stderr>>

\* subprocess.run(..., text=True, check=True): CalledProcessError on a nonzero
\* status, re-raised as Exception; otherwise the derived path is returned.  An
\* OSError of subprocess.run itself, and the UnicodeDecodeError of decoding
\* the captured streams (raised before the status is looked at), are not
\* caught here.
ConvertResult(p, o) ==
    IF ~o.spawned THEN Raise("FileNotFoundError", <<"npx">>)
    ELSE IF ~o.decoded THEN Raise("UnicodeDecodeError", <<"utf-8">>)
    ELSE IF o.exit = 0 THEN Return(InkmlPath(p))
    ELSE Raise("Exception", FailedMsg(o.stderr))

\* a second run after a nonzero exit status
ConvertProcsRetry(script, p, o) ==
    IF o.spawned /\ o.exit # 0
    THEN <<Proc(script, p, o), Proc(script, p, o)>>
    ELSE <<Proc(script, p, o)>>

\* the subprocess.run calls one call of convert_txt_to_inkml(p) makes
ConvertProcs(script, p, o) == <<Proc(script, p, o)>>

\* the object is constructed and no conversion has been asked of it yet
Idle == obj.some /\ call.op \in {"none", "init"}

ConvertTxt(p, o) ==
    /\ Idle
    /\ call' = [NoCall EXCEPT !.op = "convert", !.path = p]
    /\ fs0' = fs
    /\ procs' = procs \o ConvertProcs(obj.v, p, o)
    /\ fs' = RunConverter(fs, p, o)
    /\ ret' = ConvertResult(p, o)
    /\ UNCHANGED <<scripts, obj, dirs, todo, inkml_files, printed>>

----------------------------------------------------------------------------
(* InkMLConverter.convert_from_string *)

TmpDir == <<"tmp">>
TmpNames == {"t1", "t2"}
\* tempfile.NamedTemporaryFile(suffix='.txt'): a name in the temporary directory
TempPath(n) == TmpDir \o <<Sep, n, Dot, "txt">>

Labels == {None, Some(<<>>), Some(<<"lab">>)}

\* if output_filename is not None:
LabelNotNone(label) == label.some

\* if output_filename:
LabelGiven(label) == Truthy(label)

\* the try block: convert the temporary file, then rename the result when a
\* label is given.  f: the files once the temporary file is written.
\* Yields the files and the outcome before the finally clause runs.
TryConvert(f, tmp, label, o) ==
    LET f2 == RunConverter(f, tmp, o)
        r == ConvertResult(tmp, o)
        new == NewInkmlPath(tmp, label.v)
    IN  IF r.kind = "raise" THEN [fs |-> f2, ret |-> r]
        ELSE IF LabelGiven(label)
        THEN IF Exists(f2, r.val)
             THEN [fs |-> RenameFile(f2, r.val, new), ret |-> Return(new)]
             ELSE [fs |-> f2, ret |-> Raise("FileNotFoundError", <<"rename">>)]
        ELSE [fs |-> f2, ret |-> r]

\* finally: if os.path.exists(temp_file_path): os.remove(temp_file_path)
Cleanup(f, tmp) == IF Exists(f, tmp) THEN RemoveFile(f, tmp) ELSE f

\* writeFails: temp_file.write(txt_content) raises (content that is no str, a
\* full disk); the with block closes the file, which delete=False keeps, and
\* the exception leaves the function before the try statement is entered
FromString(n, writeFails, label, o) ==
    LET tmp == TempPath(n)
        created == WriteFile(fs, tmp, ByTempfile)
        t == TryConvert(created, tmp, label, o)
    IN  /\ Idle
            /\ ~Exists(fs, tmp)
            /\ call' = [NoCall EXCEPT !.op = "string", !.path = tmp, !.opt = label,
                                  !.bad = writeFails]
        /\ fs0' = fs
        /\ IF writeFails
           THEN /\ fs' = created
                /\ ret' = Raise("TypeError", <<"write">>)
                /\ procs' = procs
           ELSE /\ fs' = Cleanup(t.fs, tmp)
                /\ ret' = t.ret
                /\ procs' = procs \o ConvertProcs(obj.v, tmp, o)
        /\ UNCHANGED <<scripts, obj, dirs, todo, inkml_files, printed>>

----------------------------------------------------------------------------
(* InkMLConverter.batch_convert_directory *)

InDir == <<"in">>
OutDir == <<"out">>

\* output directory arguments: None, "" (falsy), the input directory, another
OutArgs == {None, Some(<<>>), Some(InDir), Some(OutDir)}

\* Path(output_dir) if output_dir else input_path
OutputPath(input, outarg) == IF Truthy(outarg) THEN outarg.v ELSE input

\* input_path.rglob("*.txt")
Discovered(f, input) == {p \in DOMAIN f : IsUnder(p, input) /\ MatchesTxt(p)}

\* the orders in which a directory walk can yield the files of S
Orders(S) ==
    {s \in [1..Cardinality(S) -> S] : \A i, j \in 1..Cardinality(S) : s[i] = s[j] => i = j}

\* order: the order in which rglob yields the matching files
BatchStart(outarg) ==
    /\ Idle
    /\ \E order \in Orders(Discovered(fs, InDir)) : todo' = order
    /\ call' = [NoCall EXCEPT !.op = "batch", !.path = InDir, !.opt = outarg,
                              !.out = OutputPath(InDir, outarg)]
    /\ fs0' = fs
    /\ dirs' = dirs \cup {OutputPath(InDir, outarg)}
    /\ inkml_files' = <<>>
    /\ printed' = <<>>
    /\ ret' = Pending
    /\ UNCHANGED <<scripts, obj, fs, procs>>

LogLine(file, msg) == [file |-> file, msg |-> msg]

\* one iteration of the loop on txt_file, the converter ending as o: the
\* files, result list and printed lines after it
BatchIter(f, out, files, lines, txt_file, o) ==
    LET f1 == RunConverter(f, txt_file, o)
        r == ConvertResult(txt_file, o)
        final == FinalPath(out, txt_file)
    IN  IF r.kind = "raise"
        THEN [fs |-> f1, files |-> files,
              lines |-> Append(lines, LogLine(txt_file, r.msg))]
        ELSE IF out # InDir
        THEN IF Exists(f1, r.val)
             THEN [fs |-> RenameFile(f1, r.val, final),
                   files |-> Append(files, final), lines |-> lines]
             ELSE [fs |-> f1, files |-> files,
                   lines |-> Append(lines, LogLine(txt_file, <<"rename">>))]
        ELSE [fs |-> f1, files |-> Append(files, r.val), lines |-> lines]

\* the loop left at the first failure
RemainingStopOnFailure(t, o) ==
    IF o.spawned /\ o.decoded /\ o.exit = 0 THEN Tail(t) ELSE <<>>

\* the files still to process after one iteration: the except clause prints
\* and the loop goes on
Remaining(t, o) == Tail(t)

BatchStep(o) ==
    /\ call.op = "batch"
    /\ ret.kind = "pending"
    /\ todo # <<>>
    /\ LET it == BatchIter(fs, call.out, inkml_files, printed, Head(todo), o)
       IN  /\ fs' = it.fs
           /\ inkml_files' = it.files
           /\ printed' = it.lines
    /\ procs' = procs \o ConvertProcs(obj.v, Head(todo), o)
    /\ todo' = Remaining(todo, o)
    /\ UNCHANGED <<scripts, obj, dirs, call, ret, fs0>>

BatchReturn ==
    /\ call.op = "batch"
    /\ ret.kind = "pending"
    /\ todo = <<>>
    /\ ret' = ReturnList(inkml_files)
    /\ UNCHANGED <<scripts, obj, fs, dirs, procs, call, todo, inkml_files, printed, fs0>>

----------------------------------------------------------------------------
(* Specifications *)

FA == InDir \o <<Sep, "a", Sep, "x", Dot, "txt">>
FB == InDir \o <<Sep, "b", Sep, "x", Dot, "txt">>
FY == InDir \o <<Sep, "y", Dot, "txt">>
Candidates == {FA, FB, FY}
\* a file the user keeps beside an input file
UserInkml == InDir \o <<Sep, "a", Sep, "x", Dot, "inkml">>
\* a file of the user's that no conversion names
UserNotes == InDir \o <<Sep, "notes", Dot, "md">>

InitFiles(txt, stale, left) ==
    [p \in txt \cup stale \cup left \cup {UserNotes} |->
        IF p \in left THEN ByTempfile ELSE ByUser]

CtorArgs == {None, Some(<<>>), Some(UserScript)}

Init ==
    /\ scripts \in SUBSET {DefaultScript, UserScript}
    /\ obj = None
    /\ \E txt \in SUBSET Candidates, stale \in SUBSET {UserInkml},
          left \in SUBSET {TempPath("t1")} :
          /\ Cardinality(txt) <= MaxFiles
          /\ fs = InitFiles(txt, stale, left)
    /\ dirs \in {{InDir, TmpDir}, {InDir, TmpDir, OutDir}}
    /\ procs = <<>>
    /\ call = NoCall
    /\ ret = NoResult
    /\ todo = <<>>
    /\ inkml_files = <<>>
    /\ printed = <<>>
    /\ fs0 = fs

Next ==
    \/ \E arg \in CtorArgs : Construct(arg)
    \/ \E p \in DOMAIN fs, o \in Outcomes : ConvertTxt(p, o)
    \/ \E n \in TmpNames, w \in BOOLEAN, l \in Labels, o \in Outcomes :
          FromString(n, w, l, o)
    \/ \E a \in OutArgs : BatchStart(a)
    \/ \E o \in Outcomes : BatchStep(o)
    \/ BatchReturn

Spec == Init /\ [][Next]_vars

\* SpecPath: convert_txt_to_inkml on every path of at most MaxLen tokens
PathTokens == {"a", Dot, Sep}
PathsUpTo(n) == UNION {[1..k -> PathTokens] : k \in 1..n}

InitPath ==
    /\ scripts = {UserScript}
    /\ obj = Some(UserScript)
    /\ fs = <<>>
    /\ dirs = {}
    /\ procs = <<>>
    /\ call = NoCall
    /\ ret = NoResult
    /\ todo = <<>>
    /\ inkml_files = <<>>
    /\ printed = <<>>
    /\ fs0 = <<>>

NextPath == \E p \in PathsUpTo(MaxLen), o \in Outcomes : ConvertTxt(p, o)

SpecPath == InitPath /\ [][NextPath]_vars

----------------------------------------------------------------------------
(* Properties *)

Last(s) == s[Len(s)]
Range(s) == {s[i] : i \in 1..Len(s)}

\* C1: after convert_txt_to_inkml ran its converter process, an exit status of
\* zero has yielded a returned path, whether or not a file exists there, and
\* a nonzero exit status has raised Exception("Conversion failed: ...") whose
\* message holds the captured error stream; there is no third outcome.
C1_ExitStatusDecidesOutcome ==
    (call.op = "convert" /\ Last(procs).spawned) =>
        /\ Last(procs).arg = call.path
        /\ Last(procs).exit = 0 =>
              /\ ret.kind = "return"
              /\ ret.val # <<>>
              /\ ret.val[Len(ret.val)] = "inkml"
        /\ Last(procs).exit # 0 =>
              /\ ret.kind = "raise"
              /\ ret.err = "Exception"
              /\ ret.msg[1] = "Conversion failed: "
              /\ \E i \in 2..Len(ret.msg) : ret.msg[i] = Last(procs).stderr
        /\ ret.kind \in {"return", "raise"}

\* the path a constructor argument names: the explicit one, else the default
C2_Named(arg) == IF arg.some /\ arg.v # <<>> THEN arg.v ELSE DefaultScript

\* C2: a constructor call whose converter path (explicit or default) does not
\* exist has raised FileNotFoundError and left no object; one whose path exists
\* has stored exactly that path; and every converter process was started by an
\* object whose stored path exists.
C2_MissingScriptNotFound ==
    /\ (call.op = "init" /\ C2_Named(call.opt) \notin scripts) =>
          /\ ret.kind = "raise"
          /\ ret.err = "FileNotFoundError"
          /\ ~obj.some
          /\ procs = <<>>
    /\ (call.op = "init" /\ C2_Named(call.opt) \in scripts) =>
          /\ ret.kind = "return"
          /\ obj = Some(C2_Named(call.opt))
    /\ procs # <<>> =>
          /\ obj.some
          /\ obj.v \in scripts
          /\ \A i \in 1..Len(procs) : procs[i].script = obj.v

\* an explicit path that does not exist was refused
C2_Witness ==
    /\ call.op = "init"
    /\ call.opt = Some(UserScript)
    /\ UserScript \notin scripts
    /\ ret.kind = "raise"
    /\ ~obj.some

\* a path that names a file: it ends in a name character, and no component
\* between separators is empty
C3_Valid(p) ==
    /\ p # <<>>
    /\ p[Len(p)] \notin {Dot, Sep}
    /\ \A i \in 1..(Len(p) - 1) : ~(p[i] = Sep /\ p[i + 1] = Sep)

\* p with the part of its file name from the last dot of that name on replaced
\* by ".inkml" (".inkml" added when the file name has no dot)
C3_Replaced(p) ==
    LET n == Name(p)
        d == LastIndex(n, Dot)
    IN  ParentPrefix(p) \o (IF d = 0 THEN n ELSE SubSeq(n, 1, d - 1)) \o InkmlExt

\* C3: the path convert_txt_to_inkml returns for a valid input path is the
\* input path with the final extension segment of its file name replaced by
\* ".inkml", also when only a directory component holds a dot.
C3_ExtensionReplaced ==
    (call.op = "convert" /\ ret.kind = "return" /\ C3_Valid(call.path)) =>
        ret.val = C3_Replaced(call.path)

\* C4: once convert_from_string has completed, by a return or by a raise, the
\* temporary input file it created is no longer on disk.
C4_TempFileRemoved ==
    (call.op = "string" /\ ret.kind \in {"return", "raise"}) =>
        ~Exists(fs, call.path)

\* the run of the converter on the i-th processed file left a file at the
\* sibling ".inkml" path: it wrote one, or one lay there when the batch began
C5_OutputThere(i) ==
    procs[i].wrote \/ Exists(fs0, C3_Replaced(procs[i].arg))

\* the conversion of the i-th processed file succeeded: the converter ran, its
\* captured streams were decoded and it exited zero and, when outputs go to a
\* distinct directory, there was an output to move
C5_Succeeded(i) ==
    /\ procs[i].spawned
    /\ procs[i].decoded
    /\ procs[i].exit = 0
    /\ (call.out # InDir) => C5_OutputThere(i)

\* the output path of the i-th processed file: beside the input, or of the
\* same name in the distinct output directory
C5_OutputOf(i) ==
    IF call.out = InDir THEN C3_Replaced(procs[i].arg)
    ELSE call.out \o <<Sep>> \o Name(C3_Replaced(procs[i].arg))

\* indices of the first n processed files that succeeded (ok) or failed (~ok)
C5_Indices(n, ok) == {i \in 1..n : C5_Succeeded(i) = ok}

\* the k-th smallest element of the set of indices I
C5_Kth(I, k) == CHOOSE i \in I : Cardinality({j \in I : j <= i}) = k

\* C5: when batch_convert_directory returns, every discovered "*.txt" file was
\* attempted once, the returned list holds exactly the output paths of the N
\* files that succeeded in discovery order, one line was printed per failing
\* file in that order, and the batch ended by a return.
C5_BatchReturnsSuccessesInOrder ==
    (call.op = "batch" /\ ret.kind # "pending") =>
        LET K == Len(procs)
            S == C5_Indices(K, TRUE)
            F == C5_Indices(K, FALSE)
        IN  /\ ret.kind = "return"
            /\ {procs[i].arg : i \in 1..K} = Discovered(fs0, InDir)
            /\ K = Cardinality(Discovered(fs0, InDir))
            /\ Len(ret.list) = Cardinality(S)
            /\ \A k \in 1..Len(ret.list) : ret.list[k] = C5_OutputOf(C5_Kth(S, k))
            /\ Len(printed) = Cardinality(F)
            /\ \A k \in 1..Len(printed) : printed[k].file = procs[C5_Kth(F, k)].arg

\* a batch returned after a failing file was followed by a succeeding one
C5_Witness ==
    /\ call.op = "batch"
    /\ ret.kind = "return"
    /\ Len(procs) >= 2
    /\ ~C5_Succeeded(1)
    /\ C5_Succeeded(2)
    /\ Len(ret.list) = 1
    /\ Len(printed) = 1

\* the i-th processed file was converted: its conversion returned (the
\* converter ran, was decoded and exited zero) and the converter wrote its
\* output
C6_Converted(i) ==
    procs[i].spawned /\ procs[i].decoded /\ procs[i].exit = 0 /\ procs[i].wrote

\* C6: when a batch with a distinct output directory returns, that directory
\* exists and every converted input file has its own output file there, whose
\* path is in the returned list, also when two input files in different
\* subdirectories share a base name.
C6_EveryOutputInOutputDir ==
    (call.op = "batch" /\ ret.kind = "return" /\ call.out # InDir) =>
        /\ call.out \in dirs
        /\ \A i \in 1..Len(procs) : C6_Converted(i) =>
              \E q \in DOMAIN fs :
                  /\ IsUnder(q, call.out)
                  /\ fs[q] = ByConverter(procs[i].arg)
                  /\ q \in Range(ret.list)

\* path p was written by a converter run of this call
C7_WrittenByConverter(p) ==
    \E i \in 1..Len(procs) :
        procs[i].spawned /\ procs[i].wrote /\ C3_Replaced(procs[i].arg) = p

\* C7: during and after a batch with a distinct output directory, every file
\* that was under the input directory when the batch began and that the
\* converter did not write is still there, unchanged.
C7_InputDirUntouched ==
    (call.op = "batch" /\ call.out # InDir) =>
        \A p \in DOMAIN fs0 :
            (IsUnder(p, InDir) /\ ~C7_WrittenByConverter(p)) =>
                (Exists(fs, p) /\ fs[p] = fs0[p])

\* C8 as stated: single-file conversion and string conversion each make
\* exactly one converter run, and a batch that returned made exactly one run
\* per discovered file.
C8_ExactlyOneProcessPerCall ==
    /\ call.op \in {"convert", "string"} =>
          (Len(procs) = 1 /\ procs[1].arg = call.path)
    /\ (call.op = "batch" /\ ret.kind = "return") =>
          /\ Len(procs) = Cardinality(Discovered(fs0, InDir))
          /\ \A f \in Discovered(fs0, InDir) :
                Cardinality({i \in 1..Len(procs) : procs[i].arg = f}) = 1

\* C8 amended: subprocess.run is called exactly once per input file and never
\* again for the same file: single-file conversion, and string conversion
\* whose content was written to the temporary file, make exactly one run;
\* string conversion whose write fails makes none; a batch never runs the
\* converter twice on a file nor on a file still to come, and has made one run
\* per discovered file once it returns.
C8_OneRunPerInputFile ==
    /\ call.op = "convert" => (Len(procs) = 1 /\ procs[1].arg = call.path)
    /\ (call.op = "string" /\ ~call.bad) =>
          (Len(procs) = 1 /\ procs[1].arg = call.path)
    /\ (call.op = "string" /\ call.bad) => procs = <<>>
    /\ call.op = "batch" =>
          /\ \A i, j \in 1..Len(procs) : procs[i].arg = procs[j].arg => i = j
          /\ \A i \in 1..Len(procs) : procs[i].arg \notin Range(todo)
    /\ (call.op = "batch" /\ ret.kind = "return") =>
          Len(procs) = Cardinality(Discovered(fs0, InDir))

\* a batch over two files whose first converter run failed made two runs
C8_Witness ==
    /\ call.op = "batch"
    /\ ret.kind = "return"
    /\ Len(procs) = 2
    /\ procs[1].exit # 0
    /\ procs[1].arg # procs[2].arg

\* the temporary file's path without its ".txt", then "_", the label, ".inkml"
C9_Labelled(tmp, label) ==
    SubSeq(tmp, 1, Len(tmp) - 2) \o <<"_">> \o label \o <<Dot, "inkml">>

\* the temporary file's path with ".txt" replaced by ".inkml"
C9_Derived(tmp) == SubSeq(tmp, 1, Len(tmp) - 2) \o <<Dot, "inkml">>

\* the converter's result was moved to the labelled path
C9_Moved(tmp, label) ==
    /\ Exists(fs, C9_Labelled(tmp, label))
    /\ ~Exists(fs, C9_Derived(tmp))

\* the result was left where the converter put it
C9_NotMoved(tmp, label) ==
    /\ Exists(fs, C9_Derived(tmp)) = Last(procs).wrote
    /\ ~Exists(fs, C9_Labelled(tmp, label))

\* C9 as stated: when convert_from_string returns, for every supplied label
\* (any value but None) the returned path is the labelled path and the result
\* was moved there; with no label the derived path is returned and nothing
\* was renamed.
C9_EverySuppliedLabelRenames ==
    (call.op = "string" /\ ret.kind = "return") =>
        IF call.opt.some
        THEN /\ ret.val = C9_Labelled(call.path, call.opt.v)
             /\ C9_Moved(call.path, call.opt.v)
        ELSE /\ ret.val = C9_Derived(call.path)
             /\ C9_NotMoved(call.path, <<>>)

\* C9 amended: when convert_from_string returns, for every non-empty label the
\* returned path is the temporary file's path without its extension, "_", the
\* label and ".inkml", and the result was moved there; with no label or an
\* empty label the derived path is returned and nothing was renamed.
C9_NonEmptyLabelRenames ==
    (call.op = "string" /\ ret.kind = "return") =>
        IF call.opt.some /\ call.opt.v # <<>>
        THEN /\ ret.val = C9_Labelled(call.path, call.opt.v)
             /\ C9_Moved(call.path, call.opt.v)
        ELSE /\ ret.val = C9_Derived(call.path)
             /\ C9_NotMoved(call.path, call.opt.v)

\* a call with a non-empty label returned the labelled path
C9_Witness ==
    /\ call.op = "string"
    /\ call.opt = Some(<<"lab">>)
    /\ ret.kind = "return"
    /\ Exists(fs, ret.val)
    /\ fs[ret.val] = ByConverter(call.path)

\* the i-th processed file's converter exited zero but left nothing to move
\* into the distinct output directory
C10_NothingToMove(i) ==
    /\ procs[i].spawned
    /\ procs[i].exit = 0
    /\ call.out # InDir
    /\ ~C5_OutputThere(i)

\* a failure line was printed for the i-th processed file
C10_Logged(i) == \E k \in 1..Len(printed) : printed[k].file = procs[i].arg

\* C10: at every point of the batch loop and at its return, the result list
\* and the printed failure lines together count the files processed so far; a
\* file whose converter exited zero but whose output could not be moved into
\* the distinct output directory has a printed line and no entry in the list
\* (the list has one entry per file without a printed line); with no distinct
\* output directory every file whose converter exited zero has its path in
\* the list, whether or not a file exists there.
C10_BatchAccounting ==
    call.op = "batch" =>
        /\ Len(inkml_files) + Len(printed) = Len(procs)
        /\ Len(procs) + Len(todo) = Cardinality(Discovered(fs0, InDir))
        /\ Len(inkml_files) = Cardinality({i \in 1..Len(procs) : ~C10_Logged(i)})
        /\ \A i \in 1..Len(procs) :
              /\ C10_NothingToMove(i) => C10_Logged(i)
              /\ (call.out = InDir /\ procs[i].spawned /\ procs[i].exit = 0) =>
                    /\ ~C10_Logged(i)
                    /\ C5_OutputOf(i) \in Range(inkml_files)

====
